---- MODULE Spec2Model ----
(***************************************************************************)
(* Model of tokio-opensim's connection set-up (src/simulator.rs) and of    *)
(* its bit-granular reader (src/layer_data/reader.rs).                     *)
(*                                                                         *)
(* Two specifications share the module:                                    *)
(*   Spec        - Simulator::connect with the circuit it drives;          *)
(*   SpecReader  - a BitsReader over a buffer and any sequence of reads.   *)
(* Machine words wider than 16 bits are kept as bit sequences, most        *)
(* significant bit first, so that u32/u64 arithmetic keeps its width.      *)
(***************************************************************************)
EXTENDS Integers, Sequences, FiniteSets, TLC

VARIABLES
    \* ---- Simulator::connect ----
    pc,            \* position of the connect future
    connect_info,  \* ConnectInfo handed to connect
    capabilities,  \* result of setup_capabilities
    services,      \* service handlers registered against the cell
    circuit,       \* the Circuit created by setup_circuit
    sends,         \* reliable sends handed to the circuit, in order
    inbound,       \* what circuit.read returned
    region_info,   \* RegionInfo extracted from the handshake
    cell,          \* Shared Circuit Data Cell (CircuitDataHandle)
    cell_sets,     \* number of CircuitDataHandle::set calls
    result,        \* what the connect future resolved to
    handled,       \* what the service handlers did with dispatched messages
    \* ---- BitsReader ----
    bytes,         \* the immutable buffer behind the reader
    position,      \* BitReader's bit cursor
    last,          \* the last read call and what it returned
    encoded,       \* the fields read so far, written back bit by bit
    fields_only,   \* every read so far was a successful LE/PadOnLeft field
    \* ---- callers of a connected Simulator ----
    mutex,         \* holder of the circuit and texture_service mutexes (0: free)
    caller         \* each caller's position in send_message / get_texture

simVars == <<pc, connect_info, capabilities, services, circuit, sends,
             inbound, region_info, cell, cell_sets, result, handled>>
readerVars == <<bytes, position, last, encoded, fields_only>>
lockVars == <<mutex, caller>>
vars == <<simVars, readerVars, lockVars>>

\* ------------------------------------------------------------------ bounds
MaxLen == 2        \* exhaustively enumerated buffers have up to MaxLen bytes
MaxNumBits == 34   \* read_part_u32 is called with num_bits in 0..MaxNumBits
MaxIp == 2         \* simulator addresses 1..MaxIp
MaxPort == 2       \* simulator ports 1..MaxPort
MaxRegion == 2     \* region ids 1..MaxRegion
MaxCallers == 2    \* concurrent callers 1..MaxCallers of one Simulator

\* ------------------------------------------------------- bit-level helpers
RECURSIVE Pow2(_)
Pow2(n) == IF n = 0 THEN 1 ELSE 2 * Pow2(n - 1)

Zeros(n) == [i \in 1..n |-> 0]

RECURSIVE Concat(_)
Concat(ss) == IF ss = <<>> THEN <<>> ELSE Head(ss) \o Concat(Tail(ss))

Reverse(s) == [i \in 1..Len(s) |-> s[Len(s) + 1 - i]]

\* A reader call's outcome: the Result it returns and the cursor it leaves.
Ok(v, p) == [ok |-> TRUE, err |-> "", value |-> v, position |-> p]
Err(e, p) == [ok |-> FALSE, err |-> e, value |-> <<>>, position |-> p]

\* --------------------------------------------- bitreader crate: BitReader
\* for i in start_position..end_position { value = (value << 1) | bit }
\* over a u64 accumulator; bit i of the buffer is bit 7 - (i % 8) of byte i / 8.
RECURSIVE ReadLoop(_, _, _, _)
ReadLoop(bs, i, end_position, value) ==
    IF i >= end_position THEN value
    ELSE LET byte_index == i \div 8
             byte == bs[byte_index + 1]
             shift == 7 - (i % 8)
             bit == (byte \div Pow2(shift)) % 2
         IN ReadLoop(bs, i + 1, end_position, Tail(value) \o <<bit>>)

\* BitReader::read_value(bit_count, maximum_count)
read_value(bs, pos, bit_count, maximum_count) ==
    IF bit_count = 0 THEN Ok(Zeros(64), pos)
    ELSE IF bit_count > maximum_count THEN Err("TooManyBitsForType", pos)
    ELSE IF pos + bit_count > Len(bs) * 8 THEN Err("NotEnoughData", pos)
    ELSE Ok(ReadLoop(bs, pos, pos + bit_count, Zeros(64)), pos + bit_count)

\* BitReader::read_u8 / read_u32: read_value narrowed to the type (as u8, as u32)
read_u8(bs, pos, bit_count) ==
    LET r == read_value(bs, pos, bit_count, 8)
    IN IF r.ok THEN Ok(SubSeq(r.value, 57, 64), r.position) ELSE r

read_u32(bs, pos, bit_count) ==
    LET r == read_value(bs, pos, bit_count, 32)
    IN IF r.ok THEN Ok(SubSeq(r.value, 33, 64), r.position) ELSE r

\* BitReader::read_bool: match read_value(1, 1)? { 0 => false, _ => true }
bitreader_read_bool(bs, pos) ==
    LET r == read_value(bs, pos, 1, 1)
    IN IF r.ok THEN Ok(r.value # Zeros(64), r.position) ELSE r

\* ------------------------------------------------ byteorder crate: ByteOrder
\* B::read_u16 / read_u32 / read_u64 over a slice of bytes (each 8 bits)
ByteOrder_read(B, bs8) ==
    IF B = "BigEndian" THEN Concat(bs8) ELSE Concat(Reverse(bs8))

\* (mutant) the word is laid out most significant byte first
LittleEndian_write_u32_BigEndian(val) ==
    <<SubSeq(val, 1, 8), SubSeq(val, 9, 16), SubSeq(val, 17, 24), SubSeq(val, 25, 32)>>

\* LittleEndian::write_u32_into(&[val], &mut bytes): least significant byte first
LittleEndian_write_u32(val) ==
    <<SubSeq(val, 25, 32), SubSeq(val, 17, 24), SubSeq(val, 9, 16), SubSeq(val, 1, 8)>>

\* u32 << n for 0 <= n < 32
Shl32(val, n) == SubSeq(val, n + 1, 32) \o Zeros(n)

\* ------------------------------------------------------- reader.rs: Padding
\* (mutant) the two policies exchanged
pad_u32_Exchanged(P, val, num_zeros, overflow_checks) ==
    IF P = "PadOnRight" THEN [panic |-> FALSE, value |-> val]
    ELSE IF num_zeros >= 32
         THEN IF overflow_checks THEN [panic |-> TRUE, value |-> <<>>]
              ELSE [panic |-> FALSE, value |-> Shl32(val, num_zeros % 32)]
         ELSE [panic |-> FALSE, value |-> Shl32(val, num_zeros)]

\* PadOnLeft::pad_u32 is the identity; PadOnRight::pad_u32 is val << num_zeros,
\* which for num_zeros >= 32 panics when overflow checks are compiled in and
\* masks the shift amount to five bits when they are not.
pad_u32(P, val, num_zeros, overflow_checks) ==
    IF P = "PadOnLeft" THEN [panic |-> FALSE, value |-> val]
    ELSE IF num_zeros >= 32
         THEN IF overflow_checks THEN [panic |-> TRUE, value |-> <<>>]
              ELSE [panic |-> FALSE, value |-> Shl32(val, num_zeros % 32)]
         ELSE [panic |-> FALSE, value |-> Shl32(val, num_zeros)]

\* ---------------------------------------------------- reader.rs: BitsReader
\* (mutant) a byte that could not be read is taken as zero (unwrap_or(0))
RECURSIVE ReadBytes_ZeroFill(_, _, _, _)
ReadBytes_ZeroFill(bs, pos, k, acc) ==
    IF k = 0 THEN Ok(acc, pos)
    ELSE LET r == read_u8(bs, pos, 8)
         IN IF r.ok THEN ReadBytes_ZeroFill(bs, r.position, k - 1, Append(acc, r.value))
            ELSE ReadBytes_ZeroFill(bs, r.position, k - 1, Append(acc, Zeros(8)))

\* [self.reader.read_u8(8)?, ..., self.reader.read_u8(8)?]: k reads in order,
\* the first failing one returns from the caller with the cursor where it is.
RECURSIVE ReadBytes(_, _, _, _)
ReadBytes(bs, pos, k, acc) ==
    IF k = 0 THEN Ok(acc, pos)
    ELSE LET r == read_u8(bs, pos, 8)
         IN IF r.ok THEN ReadBytes(bs, r.position, k - 1, Append(acc, r.value))
            ELSE Err(r.err, r.position)

read_full_u8(bs, pos) == read_u8(bs, pos, 8)

read_full_u16(B, bs, pos) ==
    LET r == ReadBytes(bs, pos, 2, <<>>)
    IN IF r.ok THEN Ok(ByteOrder_read(B, r.value), r.position) ELSE r

\* (mutant) the byte order parameter is ignored
read_full_u32_AlwaysLittleEndian(B, bs, pos) ==
    LET r == ReadBytes(bs, pos, 4, <<>>)
    IN IF r.ok THEN Ok(ByteOrder_read("LittleEndian", r.value), r.position) ELSE r

read_full_u32(B, bs, pos) ==
    LET r == ReadBytes(bs, pos, 4, <<>>)
    IN IF r.ok THEN Ok(ByteOrder_read(B, r.value), r.position) ELSE r

read_full_u64(B, bs, pos) ==
    LET r == ReadBytes(bs, pos, 8, <<>>)
    IN IF r.ok THEN Ok(ByteOrder_read(B, r.value), r.position) ELSE r

read_bool(bs, pos) == bitreader_read_bool(bs, pos)

\* (mutant) the padding amount is computed before the bits are read: for
\* num_bits > 32 the u8 subtraction panics under overflow checks and wraps
\* without them.
read_part_u32_ShiftFirst(B, P, bs, pos, num_bits, overflow_checks) ==
    IF num_bits > 32 /\ overflow_checks
    THEN [kind |-> "panic", err |-> "", raw |-> <<>>, value |-> <<>>,
          position |-> pos, shift |-> {}]
    ELSE LET num_zeros == (32 - num_bits) % 256
             r == read_u32(bs, pos, num_bits)
         IN IF ~r.ok
            THEN [kind |-> "err", err |-> r.err, value |-> <<>>, raw |-> <<>>,
                  position |-> r.position, shift |-> {num_zeros}]
            ELSE LET val == pad_u32(P, r.value, num_zeros, overflow_checks)
                 IN IF val.panic
                    THEN [kind |-> "panic", err |-> "", value |-> <<>>, raw |-> r.value,
                          position |-> r.position, shift |-> {num_zeros}]
                    ELSE [kind |-> "ok", err |-> "", raw |-> r.value,
                          value |-> ByteOrder_read(B, LittleEndian_write_u32(val.value)),
                          position |-> r.position, shift |-> {num_zeros}]

\* (mutant) pad_u32 is handed num_bits where the number of zeros belongs
read_part_u32_PadByNumBits(B, P, bs, pos, num_bits, overflow_checks) ==
    LET r == read_u32(bs, pos, num_bits)
    IN IF ~r.ok
       THEN [kind |-> "err", err |-> r.err, value |-> <<>>, raw |-> <<>>,
             position |-> r.position, shift |-> {}]
       ELSE LET val == pad_u32(P, r.value, num_bits, overflow_checks)
            IN IF val.panic
               THEN [kind |-> "panic", err |-> "", value |-> <<>>, raw |-> r.value,
                     position |-> r.position, shift |-> {num_bits}]
               ELSE [kind |-> "ok", err |-> "", raw |-> r.value,
                     value |-> ByteOrder_read(B, LittleEndian_write_u32(val.value)),
                     position |-> r.position, shift |-> {num_bits}]

\* read_part_u32: the call's outcome, with the padding amount 32 - num_bits
\* in `shift` once it was computed (no element when the read's `?` returned
\* first) and the value read_u32 returned in `raw`.
read_part_u32(B, P, bs, pos, num_bits, overflow_checks) ==
    LET r == read_u32(bs, pos, num_bits)
    IN IF ~r.ok
       THEN [kind |-> "err", err |-> r.err, value |-> <<>>, raw |-> <<>>,
             position |-> r.position, shift |-> {}]
       ELSE LET num_zeros == 32 - num_bits
                val == pad_u32(P, r.value, num_zeros, overflow_checks)
            IN IF val.panic
               THEN [kind |-> "panic", err |-> "", value |-> <<>>, raw |-> r.value,
                     position |-> r.position, shift |-> {num_zeros}]
               ELSE [kind |-> "ok", err |-> "", raw |-> r.value,
                     value |-> ByteOrder_read(B, LittleEndian_write_u32(val.value)),
                     position |-> r.position, shift |-> {num_zeros}]

\* ------------------------------------------------------- reader: state space
Orders == {"LittleEndian", "BigEndian"}
Paddings == {"PadOnLeft", "PadOnRight"}
ByteVals == {1, 180, 255}
LongBuffer == <<180, 1, 255, 0, 127, 128, 90, 165, 60>>
Buffers == UNION {[1..n -> ByteVals] : n \in 0..MaxLen} \cup {LongBuffer}

NoCall == [op |-> "none", order |-> "-", padding |-> "-", num_bits |-> 0,
           before |-> 0, kind |-> "none", err |-> "", value |-> <<>>,
           raw |-> <<>>, shift |-> {}]

\* The record of a full-width read or read_bool returning r.
Call(op, B, width, r) ==
    [op |-> op, order |-> B, padding |-> "-", num_bits |-> width,
     before |-> position, kind |-> IF r.ok THEN "ok" ELSE "err", err |-> r.err,
     value |-> r.value, raw |-> <<>>, shift |-> {}]

InitReader ==
    /\ bytes \in Buffers
    /\ position = 0
    /\ last = NoCall
    /\ encoded = <<>>
    /\ fields_only = TRUE

ReaderIdle ==
    /\ bytes = <<>>
    /\ position = 0
    /\ last = NoCall
    /\ encoded = <<>>
    /\ fields_only = TRUE

\* The low `width` bits of a u32, most significant first: a field written back.
FieldBits(value, width) == SubSeq(value, 32 - width + 1, 32)

\* A read other than a successful LittleEndian/PadOnLeft field ends the
\* field sequence being re-encoded.
Step(r, call) ==
    /\ last.kind = "none"
    /\ position' = r.position
    /\ last' = call
    /\ encoded' = <<>>
    /\ fields_only' = FALSE
    /\ UNCHANGED <<bytes, simVars, lockVars>>

ReadBool ==
    LET r == read_bool(bytes, position) IN Step(r, Call("read_bool", "-", 1, r))

ReadFullU8 ==
    LET r == read_full_u8(bytes, position) IN Step(r, Call("read_full_u8", "-", 8, r))

ReadFullU16 ==
    \E B \in Orders :
        LET r == read_full_u16(B, bytes, position)
        IN Step(r, Call("read_full_u16", B, 16, r))

ReadFullU32 ==
    \E B \in Orders :
        LET r == read_full_u32(B, bytes, position)
        IN Step(r, Call("read_full_u32", B, 32, r))

ReadFullU64 ==
    \E B \in Orders :
        LET r == read_full_u64(B, bytes, position)
        IN Step(r, Call("read_full_u64", B, 64, r))

ReadPartU32 ==
    \E B \in Orders, P \in Paddings, num_bits \in 0..MaxNumBits, overflow_checks \in BOOLEAN :
        LET r == read_part_u32(B, P, bytes, position, num_bits, overflow_checks)
            field == /\ fields_only /\ r.kind = "ok" /\ num_bits \in 1..32
                     /\ B = "LittleEndian" /\ P = "PadOnLeft"
        IN /\ last.kind = "none"
           /\ position' = r.position
           /\ last' = [op |-> "read_part_u32", order |-> B, padding |-> P,
                       num_bits |-> num_bits, before |-> position, kind |-> r.kind,
                       err |-> r.err, value |-> r.value, raw |-> r.raw,
                       shift |-> r.shift]
           /\ fields_only' = field
           /\ encoded' = IF field THEN encoded \o FieldBits(r.value, num_bits) ELSE <<>>
           /\ UNCHANGED <<bytes, simVars, lockVars>>

\* The caller takes the Result the call returned (its `?` or match); a panic
\* unwinds the caller instead, and nothing reads from this reader again.
TakeResult ==
    /\ last.kind \in {"ok", "err"}
    /\ last' = NoCall
    /\ UNCHANGED <<bytes, position, encoded, fields_only, simVars, lockVars>>

NextReader ==
    \/ TakeResult
    \/ ReadBool
    \/ ReadFullU8
    \/ ReadFullU16
    \/ ReadFullU32
    \/ ReadFullU64
    \/ ReadPartU32

\* ------------------------------------------------- simulator.rs: connect
SendTimeoutMs == 5000          \* CircuitConfig.send_timeout
SendAttempts == 5              \* CircuitConfig.send_attempts
HandshakeTimeoutMs == 15000    \* the bounded wait for RegionHandshake

Ips == 1..MaxIp
Ports == 1..MaxPort
RegionIds == 1..MaxRegion

\* ConnectInfo: the session's identifiers are fixed, the simulator's address varies.
ConnectInfos ==
    [capabilities_seed : {"seed"}, agent_id : {"agent"}, session_id : {"session"},
     circuit_code : {7}, sim_ip : Ips, sim_port : Ports]

\* Messages circuit.read may deliver, and the failure of a read that timed out.
InboundMessages ==
    [type : {"RegionHandshake"}, region_id : RegionIds]
        \cup [type : {"AgentMovementComplete", "PacketAck"}, region_id : {0}]
\* (mutant) the read is given no deadline
ReadTimeout_None == [some |-> FALSE, ms |-> 0]

\* circuit.read(Some(timeout)) with timeout = Duration::from_millis(15_000)
ReadTimeout == [some |-> TRUE, ms |-> HandshakeTimeoutMs]

ReadOutcomes ==
    [ok : {TRUE}, msg : InboundMessages]
        \cup (IF ReadTimeout.some
              THEN {[ok |-> FALSE, msg |-> [type |-> "Timeout", region_id |-> 0]]}
              ELSE {})

\* (mutant) the cell is published right after the handshake, before the two
\* movement messages
Sequel_PublishAfterHandshake(step) ==
    CASE step = "setup_capabilities" -> "register_services"
      [] step = "register_services" -> "initiate"
      [] step = "initiate" -> "UseCircuitCode"
      [] step = "UseCircuitCode" -> "read"
      [] step = "read" -> "publish"
      [] step = "publish" -> "CompleteAgentMovement"
      [] step = "CompleteAgentMovement" -> "AgentUpdate"
      [] step = "AgentUpdate" -> "assemble"
      [] step = "assemble" -> "done"

\* (mutant) the agent update is sent before the movement is completed
Sequel_AgentUpdateFirst(step) ==
    CASE step = "setup_capabilities" -> "register_services"
      [] step = "register_services" -> "initiate"
      [] step = "initiate" -> "UseCircuitCode"
      [] step = "UseCircuitCode" -> "read"
      [] step = "read" -> "AgentUpdate"
      [] step = "AgentUpdate" -> "CompleteAgentMovement"
      [] step = "CompleteAgentMovement" -> "publish"
      [] step = "publish" -> "assemble"
      [] step = "assemble" -> "done"

\* The statements of connect and setup_circuit in program order: the step
\* that follows a step which completed without error.
Sequel(step) ==
    CASE step = "setup_capabilities" -> "register_services"
      [] step = "register_services" -> "initiate"
      [] step = "initiate" -> "UseCircuitCode"
      [] step = "UseCircuitCode" -> "read"
      [] step = "read" -> "CompleteAgentMovement"
      [] step = "CompleteAgentMovement" -> "AgentUpdate"
      [] step = "AgentUpdate" -> "publish"
      [] step = "publish" -> "assemble"
      [] step = "assemble" -> "done"

\* (mutant) a failed capability negotiation is not propagated
Propagate_IgnoreCapabilitiesError(step, ok, error) ==
    IF ok \/ error = "CapabilitiesError"
    THEN [pc |-> Sequel(step), result |-> [kind |-> "pending"]]
    ELSE [pc |-> "done", result |-> [kind |-> "err", error |-> error]]

\* (mutant) the Result of a reliable send is dropped instead of propagated
Propagate_IgnoreSendError(step, ok, error) ==
    IF ok \/ error = "SendMessageError"
    THEN [pc |-> Sequel(step), result |-> [kind |-> "pending"]]
    ELSE [pc |-> "done", result |-> [kind |-> "err", error |-> error]]

\* `?` on a step's Result: an Err returns it from connect, an Ok goes on.
Propagate(step, ok, error) ==
    IF ok THEN [pc |-> Sequel(step), result |-> [kind |-> "pending"]]
    ELSE [pc |-> "done", result |-> [kind |-> "err", error |-> error]]

\* RegionInfo::extract_message(handshake)
extract_message(handshake) == [kind |-> "region_info", region_id |-> handshake.region_id]

\* (mutant) the catch-all arm accepts whatever message arrived
match_handshake_AnyMessage(msg) ==
    [ok |-> TRUE, region_info |-> extract_message(msg)]

\* match circuit.read(Some(timeout))? { RegionHandshake(h) => Ok(..), _ => Err(Msg) }
match_handshake(msg) ==
    IF msg.type = "RegionHandshake"
    THEN [ok |-> TRUE, region_info |-> extract_message(msg)]
    ELSE [ok |-> FALSE, region_info |-> [kind |-> "none"]]

\* The three handshake messages built from connect_info.
HandshakeMessage(type, ci) ==
    [type |-> type, agent_id |-> ci.agent_id, session_id |-> ci.session_id,
     circuit_code |-> IF type = "AgentUpdate" THEN 0 ELSE ci.circuit_code]

\* (mutant) the port is filled from the address field
make_locator_PortFromIp(ci) == [sim_ip |-> ci.sim_ip, sim_port |-> ci.sim_ip]

\* SimLocator { sim_ip: connect_info.sim_ip, sim_port: connect_info.sim_port }
make_locator(ci) == [sim_ip |-> ci.sim_ip, sim_port |-> ci.sim_port]

\* CircuitData { capabilities, message_sender: circuit.message_sender(), region_id }
make_circuit_data(caps, circ, info) ==
    [kind |-> "set", capabilities |-> caps, message_sender |-> circ.sim,
     region_id |-> info.region_id]

InitSim ==
    /\ pc = "setup_capabilities"
    /\ connect_info \in ConnectInfos
    /\ capabilities = [kind |-> "none"]
    /\ services = {}
    /\ circuit = [kind |-> "none"]
    /\ sends = <<>>
    /\ inbound = [kind |-> "none"]
    /\ region_info = [kind |-> "none"]
    /\ cell = [kind |-> "none"]
    /\ cell_sets = 0
    /\ result = [kind |-> "pending"]
    /\ handled = {}

SimIdle ==
    /\ pc = "idle"
    /\ connect_info = [sim_ip |-> 0, sim_port |-> 0]
    /\ capabilities = [kind |-> "none"]
    /\ services = {}
    /\ circuit = [kind |-> "none"]
    /\ sends = <<>>
    /\ inbound = [kind |-> "none"]
    /\ region_info = [kind |-> "none"]
    /\ cell = [kind |-> "none"]
    /\ cell_sets = 0
    /\ result = [kind |-> "pending"]
    /\ handled = {}

\* await!(Self::setup_capabilities(..))?: the capability set, or CapabilitiesError
SetupCapabilities ==
    /\ pc = "setup_capabilities"
    /\ \E ok \in BOOLEAN :
        LET next == Propagate("setup_capabilities", ok, "CapabilitiesError")
        IN /\ capabilities' = IF ok THEN [kind |-> "caps", seed |-> connect_info.capabilities_seed]
                              ELSE [kind |-> "failed"]
           /\ pc' = next.pc
           /\ result' = next.result
    /\ UNCHANGED <<connect_info, services, circuit, sends, inbound, region_info,
                   cell, cell_sets, handled, readerVars, lockVars>>

\* CircuitDataHandle::new() and the two register_service calls
RegisterServices ==
    /\ pc = "register_services"
    /\ cell' = [kind |-> "unset"]
    /\ services' = {"region_handle", "terrain"}
    /\ pc' = Sequel("register_services")
    /\ UNCHANGED <<connect_info, capabilities, circuit, sends, inbound, region_info,
                   cell_sets, result, handled, readerVars, lockVars>>

\* Circuit::initiate(&connect_info, config, handlers, ..)?
InitiateCircuit ==
    /\ pc = "initiate"
    /\ \E ok \in BOOLEAN :
        LET next == Propagate("initiate", ok, "IoError")
        IN /\ circuit' = IF ok
                         THEN [kind |-> "circuit",
                               config |-> [send_timeout |-> SendTimeoutMs,
                                           send_attempts |-> SendAttempts],
                               handlers |-> services,
                               sim |-> [sim_ip |-> connect_info.sim_ip,
                                        sim_port |-> connect_info.sim_port]]
                         ELSE [kind |-> "failed"]
           /\ pc' = next.pc
           /\ result' = next.result
    /\ UNCHANGED <<connect_info, capabilities, services, sends, inbound, region_info,
                   cell, cell_sets, handled, readerVars, lockVars>>

\* circuit.send(message, true): the message is handed to the circuit and the
\* connect future waits for the send to finish.
StartSend(type) ==
    /\ pc = type
    /\ sends' = Append(sends, [msg |-> HandshakeMessage(type, connect_info),
                               state |-> "queued", tx |-> 0, waits |-> 0,
                               acked |-> FALSE])
    /\ pc' = "await_send"
    /\ UNCHANGED <<connect_info, capabilities, services, circuit, inbound,
                   region_info, cell, cell_sets, result, handled, readerVars, lockVars>>

\* await!(circuit.send(UseCircuitCode { .. }, true))
SendUseCircuitCode ==
    /\ pc = "UseCircuitCode"
    /\ StartSend("UseCircuitCode")

\* await!(circuit.send(CompleteAgentMovement { .. }, true))
SendCompleteAgentMovement ==
    /\ pc = "CompleteAgentMovement"
    /\ StartSend("CompleteAgentMovement")

\* await!(circuit.send(agent_state.to_update_message(..), true))
SendAgentUpdate ==
    /\ pc = "AgentUpdate"
    /\ StartSend("AgentUpdate")

\* ---- Circuit::send with reliable = true (the retry ladder) ----
Current == sends[Len(sends)]
Sending(st) == pc = "await_send" /\ sends # <<>> /\ Current.state = st
UpdateCurrent(s) == [sends EXCEPT ![Len(sends)] = s]
CircuitOnly == UNCHANGED <<pc, connect_info, capabilities, services, circuit, inbound,
                           region_info, cell, cell_sets, result, handled, readerVars, lockVars>>

\* (mutant) one transmission too many before the ladder gives up
MayTransmit_OffByOne(tx, send_attempts) == tx <= send_attempts

\* May the send transmit again after tx transmissions?
MayTransmit(tx, send_attempts) == tx < send_attempts

Transmit ==
    /\ Sending("queued")
    /\ MayTransmit(Current.tx, circuit.config.send_attempts)
    /\ sends' = UpdateCurrent([Current EXCEPT !.tx = @ + 1, !.state = "waiting"])
    /\ CircuitOnly

Acknowledge ==
    /\ Sending("waiting")
    /\ sends' = UpdateCurrent([Current EXCEPT !.acked = TRUE, !.state = "ok"])
    /\ CircuitOnly

\* send_timeout elapsed without an acknowledgment: retransmit, or give up
\* once send_attempts transmissions were made.
AckTimeout ==
    /\ Sending("waiting")
    /\ sends' = UpdateCurrent(
            [Current EXCEPT !.waits = @ + 1,
                            !.state = IF MayTransmit(Current.tx, circuit.config.send_attempts)
                                      THEN "queued" ELSE "timeout"])
    /\ CircuitOnly

\* await!(circuit.send(message, true))?
SendCompleted ==
    /\ pc = "await_send"
    /\ sends # <<>>
    /\ Current.state \in {"ok", "timeout"}
    /\ LET next == Propagate(Current.msg.type, Current.state = "ok", "SendMessageError")
       IN /\ pc' = next.pc
          /\ result' = next.result
    /\ UNCHANGED <<connect_info, capabilities, services, circuit, sends, inbound,
                   region_info, cell, cell_sets, handled, readerVars, lockVars>>

\* circuit.read(Some(timeout))? and the match on the message it returned
ReadRegionHandshake ==
    /\ pc = "read"
    /\ \E r \in ReadOutcomes :
        LET m == match_handshake(r.msg)
            next == IF ~r.ok THEN Propagate("read", FALSE, "ReadMessageError")
                    ELSE Propagate("read", m.ok, "Did not receive RegionHandshake")
        IN /\ inbound' = [kind |-> IF r.ok THEN "message" ELSE "timeout", msg |-> r.msg]
           /\ region_info' = IF r.ok /\ m.ok THEN m.region_info ELSE region_info
           /\ pc' = next.pc
           /\ result' = next.result
    /\ UNCHANGED <<connect_info, capabilities, services, circuit, sends, cell,
                   cell_sets, handled, readerVars, lockVars>>

\* circuit_data_handle.set(CircuitData { .. })
PublishCircuitData ==
    /\ pc = "publish"
    /\ cell' = make_circuit_data(capabilities, circuit, region_info)
    /\ cell_sets' = cell_sets + 1
    /\ pc' = Sequel("publish")
    /\ UNCHANGED <<connect_info, capabilities, services, circuit, sends, inbound,
                   region_info, result, handled, readerVars, lockVars>>

\* setup_texture_service, the locator, and Ok(Simulator { .. })
ReturnSimulator ==
    /\ pc = "assemble"
    /\ result' = [kind |-> "ok",
                  simulator |-> [caps |-> capabilities, circuit |-> circuit,
                                 region_info |-> region_info, services |-> services,
                                 texture_service |-> [caps |-> capabilities],
                                 locator |-> make_locator(connect_info)]]
    /\ pc' = Sequel("assemble")
    /\ UNCHANGED <<connect_info, capabilities, services, circuit, sends, inbound,
                   region_info, cell, cell_sets, handled, readerVars, lockVars>>

\* ---- Circuit's background dispatch loop and the registered handlers ----
\* Inbound message types and the service whose handler is registered for them.
ServiceMessages == {"LayerData", "RegionIDAndHandleReply", "ChatFromSimulator"}
HandlerFor(type) ==
    CASE type = "LayerData" -> {"terrain"}
      [] type = "RegionIDAndHandleReply" -> {"region_handle"}
      [] OTHER -> {}

\* (mutant) a handler that finds the cell unset goes on with default data
HandlerRun_DefaultData(service, c) ==
    [service |-> service, outcome |-> "operated",
     data |-> IF c.kind = "set" THEN c ELSE [kind |-> "default"]]

\* A handler reads the cell: it operates on the data once the cell is set
\* and gets a not-ready signal before that.
HandlerRun(service, c) ==
    IF c.kind = "set"
    THEN [service |-> service, outcome |-> "operated", data |-> c]
    ELSE [service |-> service, outcome |-> "not_ready", data |-> [kind |-> "unset"]]

\* The dispatch loop started by Circuit::initiate routes an inbound message to
\* the handler registered for its type; other types are ignored.
Dispatch ==
    /\ circuit.kind = "circuit"
    /\ \E type \in ServiceMessages :
        handled' = handled \cup
            {HandlerRun(svc, cell) : svc \in HandlerFor(type) \cap circuit.handlers}
    /\ UNCHANGED <<pc, connect_info, capabilities, services, circuit, sends, inbound,
                   region_info, cell, cell_sets, result, readerVars, lockVars>>

\* ------------------------- simulator.rs: send_message and get_texture
Callers == 1..MaxCallers
Mutexes == {"circuit", "texture_service"}
MutexOf(op) == IF op = "send_message" THEN "circuit" ELSE "texture_service"

IdleCaller == [pc |-> "idle", op |-> "-", reliable |-> FALSE, fut |-> "none", tx |-> 0]

LocksIdle ==
    /\ mutex = [m \in Mutexes |-> 0]
    /\ caller = [c \in {} |-> IdleCaller]

InitLocks ==
    /\ mutex = [m \in Mutexes |-> 0]
    /\ caller = [c \in Callers |-> IdleCaller]

\* (mutant) the guard is bound to a name that lives until the future resolved
GuardLives_UntilResolved(stage) == stage \in {"call", "await"}

\* self.circuit.lock().unwrap().send(..): the MutexGuard is a temporary of
\* the statement, so it lives through the call and is dropped before the
\* method returns the future.
GuardLives(stage) == stage = "call"

\* self.circuit.lock().unwrap() / self.texture_service.lock().unwrap()
AcquireLock ==
    \E c \in Callers, op \in {"send_message", "get_texture"}, reliable \in BOOLEAN :
        /\ caller[c].pc = "idle"
        /\ op = "get_texture" => ~reliable
        /\ mutex[MutexOf(op)] = 0
        /\ mutex' = [mutex EXCEPT ![MutexOf(op)] = c]
        /\ caller' = [caller EXCEPT ![c] = [IdleCaller EXCEPT !.pc = "call", !.op = op,
                                                               !.reliable = reliable]]
        /\ UNCHANGED <<simVars, readerVars>>

\* .send(message, reliable) / .get_texture(id, handle): the future is created
\* and returned; the guard goes where GuardLives says.
CreateFuture ==
    \E c \in Callers :
        /\ caller[c].pc = "call"
        /\ caller' = [caller EXCEPT ![c].pc = "await",
                                    ![c].fut = IF caller[c].op = "get_texture" THEN "fetching"
                                               ELSE IF caller[c].reliable THEN "queued"
                                               ELSE "ok"]
        /\ mutex' = IF GuardLives("await") THEN mutex
                    ELSE [mutex EXCEPT ![MutexOf(caller[c].op)] = 0]
        /\ UNCHANGED <<simVars, readerVars>>

\* The returned SendMessage future of a reliable send: the retry ladder.
FutureTransmit ==
    \E c \in Callers :
        /\ caller[c].pc = "await"
        /\ caller[c].fut = "queued"
        /\ MayTransmit(caller[c].tx, SendAttempts)
        /\ caller' = [caller EXCEPT ![c].tx = @ + 1, ![c].fut = "waiting"]
        /\ UNCHANGED <<mutex, simVars, readerVars>>

FutureAcknowledged ==
    \E c \in Callers :
        /\ caller[c].pc = "await"
        /\ caller[c].fut = "waiting"
        /\ caller' = [caller EXCEPT ![c].fut = "ok"]
        /\ UNCHANGED <<mutex, simVars, readerVars>>

FutureAckTimeout ==
    \E c \in Callers :
        /\ caller[c].pc = "await"
        /\ caller[c].fut = "waiting"
        /\ caller' = [caller EXCEPT ![c].fut = IF MayTransmit(caller[c].tx, SendAttempts)
                                               THEN "queued" ELSE "timeout"]
        /\ UNCHANGED <<mutex, simVars, readerVars>>

\* The returned GetTexture future resolves.
TextureFetched ==
    \E c \in Callers :
        /\ caller[c].pc = "await"
        /\ caller[c].fut = "fetching"
        /\ caller' = [caller EXCEPT ![c].fut = "fetched"]
        /\ UNCHANGED <<mutex, simVars, readerVars>>

\* The caller's await returns; whatever it still holds of the call is dropped.
FutureResolved ==
    \E c \in Callers :
        /\ caller[c].pc = "await"
        /\ caller[c].fut \in {"ok", "timeout", "fetched"}
        /\ caller' = [caller EXCEPT ![c] = IdleCaller]
        /\ mutex' = [m \in Mutexes |-> IF mutex[m] = c THEN 0 ELSE mutex[m]]
        /\ UNCHANGED <<simVars, readerVars>>

NextLocks ==
    \/ AcquireLock
    \/ CreateFuture
    \/ FutureTransmit
    \/ FutureAcknowledged
    \/ FutureAckTimeout
    \/ TextureFetched
    \/ FutureResolved

Init == InitSim /\ ReaderIdle /\ LocksIdle

Next ==
    \/ SetupCapabilities
    \/ RegisterServices
    \/ InitiateCircuit
    \/ SendUseCircuitCode
    \/ Transmit
    \/ Acknowledge
    \/ AckTimeout
    \/ SendCompleted
    \/ ReadRegionHandshake
    \/ SendCompleteAgentMovement
    \/ SendAgentUpdate
    \/ PublishCircuitData
    \/ ReturnSimulator
    \/ Dispatch

Spec == Init /\ [][Next]_vars

\* The bounded wait ending at its deadline.
ReadTimedOut == ReadRegionHandshake /\ inbound'.kind = "timeout"

\* What the scheduling guarantees: the connect future is polled whenever it
\* can go on, capability negotiation completes, and timers fire. The peer
\* owes nothing: no acknowledgment and no inbound message is ever due.
Fairness ==
    /\ WF_vars(SetupCapabilities)
    /\ WF_vars(RegisterServices)
    /\ WF_vars(InitiateCircuit)
    /\ WF_vars(SendUseCircuitCode)
    /\ WF_vars(SendCompleteAgentMovement)
    /\ WF_vars(SendAgentUpdate)
    /\ WF_vars(Transmit)
    /\ WF_vars(AckTimeout)
    /\ WF_vars(SendCompleted)
    /\ WF_vars(ReadTimedOut)
    /\ WF_vars(PublishCircuitData)
    /\ WF_vars(ReturnSimulator)

SpecLive == Spec /\ Fairness

InitR == SimIdle /\ InitReader /\ LocksIdle

InitL == SimIdle /\ ReaderIdle /\ InitLocks

SpecLocks == InitL /\ [][NextLocks]_vars

SpecReader == InitR /\ [][NextReader]_vars

\* ================================================================ claims
\* ---- vocabulary of the connect claims ----
Handed(type) == \E i \in 1..Len(sends) : sends[i].msg.type = type
Succeeded(type) ==
    \E i \in 1..Len(sends) :
        sends[i].msg.type = type /\ sends[i].state = "ok" /\ sends[i].acked
GotRegionHandshake == inbound.kind = "message" /\ inbound.msg.type = "RegionHandshake"
NoRegionHandshake ==
    \/ inbound.kind = "timeout"
    \/ inbound.kind = "message" /\ inbound.msg.type # "RegionHandshake"

\* C1: when the bounded wait after UseCircuitCode returns anything but a
\* RegionHandshake, or times out, connect has ended in an error and neither
\* CompleteAgentMovement nor AgentUpdate is ever handed to the circuit.
C1_NoHandshakeAborts ==
    NoRegionHandshake =>
        /\ pc = "done"
        /\ result.kind = "err"
        /\ ~Handed("CompleteAgentMovement")
        /\ ~Handed("AgentUpdate")

C1_Witness ==
    /\ inbound.kind = "message"
    /\ inbound.msg.type = "PacketAck"
    /\ Succeeded("UseCircuitCode")
    /\ result.kind = "err"

\* C2: a Simulator is returned only after capability negotiation, circuit
\* creation, the UseCircuitCode send, the RegionHandshake and the
\* CompleteAgentMovement and AgentUpdate sends all succeeded; a failed step
\* leaves the caller with an error and no Simulator.
C2_SimulatorOnlyAfterAllSteps ==
    /\ result.kind = "ok" =>
        /\ capabilities.kind = "caps"
        /\ circuit.kind = "circuit"
        /\ Succeeded("UseCircuitCode")
        /\ GotRegionHandshake
        /\ Succeeded("CompleteAgentMovement")
        /\ Succeeded("AgentUpdate")
    /\ ( \/ capabilities.kind = "failed"
         \/ circuit.kind = "failed"
         \/ \E i \in 1..Len(sends) : sends[i].state = "timeout" /\ pc # "await_send"
         \/ NoRegionHandshake )
       => pc = "done" /\ result.kind = "err"

C2_Witness ==
    /\ result.kind = "ok"
    /\ Succeeded("AgentUpdate")
    /\ \E i \in 1..Len(sends) : sends[i].tx > 1

\* C3 as stated: the cell is populated after the RegionHandshake and before
\* CompleteAgentMovement and AgentUpdate are sent, so once either message was
\* handed to the circuit the cell is set.
C3_Original_CellBeforeMovement ==
    (Handed("CompleteAgentMovement") \/ Handed("AgentUpdate")) => cell.kind = "set"

\* C3 (amended): the cell is populated only after the RegionHandshake was
\* received and after the CompleteAgentMovement and AgentUpdate sends both
\* succeeded; while either send is outstanding the cell is still unset.
C3_CellAfterMovement ==
    /\ cell.kind = "set" =>
        /\ GotRegionHandshake
        /\ Succeeded("CompleteAgentMovement")
        /\ Succeeded("AgentUpdate")
    /\ (pc \in {"CompleteAgentMovement", "AgentUpdate", "await_send"}) => cell.kind = "unset"

C3_Witness ==
    /\ cell.kind = "set"
    /\ Succeeded("AgentUpdate")
    /\ pc = "assemble"

\* C4: the cell is set at most once, only with capabilities negotiated and a
\* RegionHandshake received after a successful UseCircuitCode send, and never
\* in a run that ends in an error.
C4_CellSetOnce ==
    /\ cell_sets <= 1
    /\ cell.kind = "set" <=> cell_sets = 1
    /\ cell.kind = "set" =>
        /\ capabilities.kind = "caps"
        /\ Succeeded("UseCircuitCode")
        /\ GotRegionHandshake
        /\ cell.capabilities = capabilities
    /\ result.kind = "err" => cell.kind # "set" /\ cell_sets = 0

C4_Witness ==
    /\ cell.kind = "set"
    /\ cell_sets = 1
    /\ pc = "done"

\* C5: an unacknowledged reliable send transmits exactly send_attempts (5)
\* times, waits out the send timeout after each transmission, and then fails
\* with a send timeout; no send transmits more often or succeeds unacknowledged.
C5_RetryLadder ==
    \A i \in 1..Len(sends) :
        LET s == sends[i] IN
        /\ circuit.kind = "circuit"
        /\ circuit.config.send_attempts = 5
        /\ s.tx <= circuit.config.send_attempts
        /\ s.state = "ok" => s.acked
        /\ s.state = "queued" => s.waits = s.tx
        /\ s.state = "waiting" => s.waits = s.tx - 1
        /\ s.state = "timeout" =>
            /\ ~s.acked
            /\ s.tx = circuit.config.send_attempts
            /\ s.waits = s.tx
        /\ (~s.acked /\ s.tx = circuit.config.send_attempts /\ s.waits = s.tx)
            => s.state = "timeout"

C5_Witness ==
    /\ pc = "done"
    /\ result.kind = "err"
    /\ result.error = "SendMessageError"
    /\ sends # <<>>
    /\ sends[Len(sends)].state = "timeout"
    /\ sends[Len(sends)].tx = 5

\* C9: a successful connect returns a Simulator whose region id is the one
\* the RegionHandshake carried and whose locator is the supplied address and
\* port; the cell holds the same region id.
C9_RegionAndLocator ==
    result.kind = "ok" =>
        /\ GotRegionHandshake
        /\ result.simulator.region_info.region_id = inbound.msg.region_id
        /\ result.simulator.locator.sim_ip = connect_info.sim_ip
        /\ result.simulator.locator.sim_port = connect_info.sim_port
        /\ cell.kind = "set"
        /\ cell.region_id = inbound.msg.region_id

C9_Witness ==
    /\ result.kind = "ok"
    /\ inbound.msg.region_id = 2
    /\ connect_info.sim_ip = 1
    /\ connect_info.sim_port = 2
    /\ result.simulator.locator = [sim_ip |-> 1, sim_port |-> 2]

\* ---- vocabulary of the reader claims ----
\* The buffer as one bit string, each byte most significant bit first.
ByteBits(b) == [i \in 1..8 |-> (b \div Pow2(8 - i)) % 2]
BufferBits(bs) == Concat([i \in 1..Len(bs) |-> ByteBits(bs[i])])
\* n < 2^31 as a w-bit word
RECURSIVE WordOf(_, _)
WordOf(n, w) == IF w = 0 THEN <<>> ELSE Append(WordOf(n \div 2, w - 1), n % 2)
Called == last.kind # "none"
Remaining == Len(bytes) * 8 - last.before

\* C6: a read that needs more bits than remain after the cursor returns an
\* error and never a value (1, 8, 16, 32, 64 bits, or num_bits).
C6_ShortReadFails ==
    (Called /\ Remaining < last.num_bits) => last.kind = "err"

C6_Witness ==
    /\ last.op = "read_full_u32"
    /\ Remaining \in 8..31
    /\ last.kind = "err"
    /\ last.err = "NotEnoughData"

\* The value the claim assigns to read_part_u32<B, P>(n) at cursor `before`.
PartValue(bs, before, n, B, P) ==
    LET v == SubSeq(BufferBits(bs), before + 1, before + n)
        word == IF P = "PadOnLeft" THEN Zeros(32 - n) \o v ELSE v \o Zeros(32 - n)
    IN IF B = "LittleEndian" THEN word
       ELSE SubSeq(word, 25, 32) \o SubSeq(word, 17, 24)
                \o SubSeq(word, 9, 16) \o SubSeq(word, 1, 8)

\* C7: with num_bits in 1..32 and that many bits left, read_part_u32 returns
\* the next num_bits bits, padded (PadOnLeft: as they are; PadOnRight: shifted
\* left by 32 - num_bits), with the four bytes reversed under BigEndian;
\* [0xB4, 0x01] read with num_bits = 4 gives 176 (PadOnRight/BigEndian) and
\* 184549376 (PadOnLeft/BigEndian).
C7_PartValue ==
    (last.op = "read_part_u32" /\ last.num_bits \in 1..32 /\ Remaining >= last.num_bits) =>
        /\ last.kind = "ok"
        /\ last.value = PartValue(bytes, last.before, last.num_bits, last.order, last.padding)
        /\ (bytes = <<180, 1>> /\ last.before = 0 /\ last.num_bits = 4 /\ last.order = "BigEndian") =>
              last.value = WordOf(IF last.padding = "PadOnRight" THEN 176 ELSE 184549376, 32)

C7_Witness ==
    /\ bytes = <<180, 1>>
    /\ last.op = "read_part_u32"
    /\ last.before = 0
    /\ last.num_bits = 4
    /\ last.order = "BigEndian"
    /\ last.padding = "PadOnRight"
    /\ last.kind = "ok"
    /\ last.value = WordOf(176, 32)

\* C8: read_part_u32 with num_bits > 32 returns an error under both paddings
\* and both byte orders, and the read is rejected before 32 - num_bits is
\* computed.
C8_TooManyBitsRejected ==
    (last.op = "read_part_u32" /\ last.num_bits > 32) =>
        /\ last.kind = "err"
        /\ last.shift = {}

C8_Witness ==
    /\ last.op = "read_part_u32"
    /\ last.num_bits = 33
    /\ last.padding = "PadOnRight"
    /\ Remaining >= 33
    /\ last.kind = "err"
    /\ last.err = "TooManyBitsForType"

\* C10: fields read in order with read_part_u32<LittleEndian, PadOnLeft> and
\* written back at their widths, most significant bit first, reproduce the
\* consumed prefix of the buffer bit for bit.
C10_RoundTrip ==
    fields_only => encoded = SubSeq(BufferBits(bytes), 1, position)

C10_Witness ==
    /\ fields_only
    /\ last.op = "read_part_u32"
    /\ last.kind = "ok"
    /\ last.before > 0
    /\ last.before % 8 # 0
    /\ position > 32
    /\ encoded = SubSeq(BufferBits(bytes), 1, position)

\* ---- connect, continued ----
\* C11: when capability negotiation fails, connect has ended in a
\* capabilities error with no service registered, no circuit created and no
\* message handed to the circuit or transmitted.
C11_CapabilityFailureSendsNothing ==
    capabilities.kind = "failed" =>
        /\ pc = "done"
        /\ result.kind = "err"
        /\ result.error = "CapabilitiesError"
        /\ services = {}
        /\ cell.kind = "none"
        /\ circuit.kind = "none"
        /\ sends = <<>>

C11_Witness ==
    /\ capabilities.kind = "failed"
    /\ pc = "done"
    /\ result.kind = "err"

\* The message types handed to the circuit so far, in order.
HandedTypes == [i \in 1..Len(sends) |-> sends[i].msg.type]
HandshakeOrder == <<"UseCircuitCode", "CompleteAgentMovement", "AgentUpdate">>

\* C13: the handshake messages are issued in the order UseCircuitCode,
\* (RegionHandshake received), CompleteAgentMovement, AgentUpdate, each at most
\* once, and each step starts only after the previous reliable send was
\* acknowledged: the wait for the RegionHandshake only after UseCircuitCode,
\* AgentUpdate only after CompleteAgentMovement.
C13_HandshakeOrder ==
    /\ Len(sends) <= 3
    /\ HandedTypes = SubSeq(HandshakeOrder, 1, Len(sends))
    /\ \A i \in 1..Len(sends) - 1 : sends[i].state = "ok" /\ sends[i].acked
    /\ (pc = "read" \/ inbound.kind # "none") => Succeeded("UseCircuitCode")
    /\ Handed("CompleteAgentMovement") => GotRegionHandshake
    /\ Handed("AgentUpdate") => Succeeded("CompleteAgentMovement")

C13_Witness ==
    /\ Len(sends) = 3
    /\ sends[3].msg.type = "AgentUpdate"
    /\ sends[3].tx = 1
    /\ sends[2].tx > 1
    /\ sends[2].acked

\* C12: the service handlers are registered before the circuit is created,
\* and in no interleaving of the dispatch loop with connect does a handler
\* operate on circuit data while the cell is unset.
C12_HandlersWaitForCell ==
    /\ circuit.kind = "circuit" =>
        /\ services = {"region_handle", "terrain"}
        /\ circuit.handlers = services
        /\ cell.kind \in {"unset", "set"}
    /\ \A h \in handled : h.outcome = "operated" => cell.kind = "set" /\ h.data = cell
    /\ cell.kind # "set" => \A h \in handled : h.outcome = "not_ready"

C12_Witness ==
    /\ \E h \in handled : h.outcome = "not_ready" /\ h.service = "terrain"
    /\ \E h \in handled : h.outcome = "operated" /\ h.service = "terrain"
    /\ pc = "assemble"

\* C14: once capability negotiation completes, every run of connect ends
\* with a Simulator or an error: each reliable send gives up after 5
\* unacknowledged transmissions and the wait for the RegionHandshake ends at
\* its deadline, so a silent peer cannot keep a step waiting forever.
C14_ConnectTerminates ==
    <>(pc = "done" /\ result.kind \in {"ok", "err"})

C14_Witness ==
    /\ pc = "done"
    /\ result.kind = "err"
    /\ inbound.kind = "timeout"
    /\ sends[1].tx = 5

\* ---- reader, continued ----
FullReads == {"read_full_u8", "read_full_u16", "read_full_u32", "read_full_u64"}

\* C15: the cursor never moves back and never passes the end of the buffer,
\* and a successful call advances it by exactly the width read (1, 8, 16, 32,
\* 64, or num_bits).
C15_CursorAdvancesByWidth ==
    /\ position \in 0..(Len(bytes) * 8)
    /\ Called => position >= last.before
    /\ last.kind = "ok" => position = last.before + last.num_bits

C15_Witness ==
    /\ last.op = "read_full_u64"
    /\ last.kind = "ok"
    /\ last.before = 3
    /\ position = 67

\* The four bytes of a 32-bit word in reverse order.
ByteSwap32(w) ==
    SubSeq(w, 25, 32) \o SubSeq(w, 17, 24) \o SubSeq(w, 9, 16) \o SubSeq(w, 1, 8)

\* C16: for num_bits in 1..32 PadOnRight is applied with n = 32 - num_bits to
\* a value v < 2^num_bits and yields v << n: no set bit of v leaves the word
\* and the low n bits are zero.
C16_PadOnRightInRange ==
    (last.op = "read_part_u32" /\ last.padding = "PadOnRight" /\ last.num_bits \in 1..32) =>
        /\ last.kind # "panic"
        /\ last.kind = "ok" =>
            LET n == 32 - last.num_bits
                word == IF last.order = "LittleEndian" THEN last.value
                        ELSE ByteSwap32(last.value)
            IN /\ last.shift = {n}
               /\ SubSeq(last.raw, 1, n) = Zeros(n)
               /\ SubSeq(word, 1, last.num_bits) = SubSeq(last.raw, n + 1, 32)
               /\ SubSeq(word, last.num_bits + 1, 32) = Zeros(n)

C16_Witness ==
    /\ last.op = "read_part_u32"
    /\ last.padding = "PadOnRight"
    /\ last.num_bits = 5
    /\ last.kind = "ok"
    /\ last.shift = {27}
    /\ last.raw[28] = 1
    /\ last.raw[32] = 1

\* The k-th 8-bit group of the bits after cursor `before`.
Group(bs, before, k) == SubSeq(BufferBits(bs), before + 8 * (k - 1) + 1, before + 8 * k)

\* C18: at any cursor position a successful read_full_u16/u32/u64 takes the
\* next bits in 8-bit groups; under BigEndian the result is those bits as one
\* integer, most significant first, under LittleEndian the first group is the
\* least significant byte; read_full_u8 returns the next 8 bits.
C18_FullReadValue ==
    (last.op \in FullReads /\ last.kind = "ok") =>
        LET m == last.num_bits \div 8 IN
        /\ Len(last.value) = last.num_bits
        /\ last.order \in {"-", "BigEndian"} =>
              last.value = SubSeq(BufferBits(bytes), last.before + 1,
                                  last.before + last.num_bits)
        /\ last.order = "LittleEndian" =>
              \A k \in 1..m :
                  SubSeq(last.value, 8 * (m - k) + 1, 8 * (m - k + 1))
                      = Group(bytes, last.before, k)

C18_Witness ==
    /\ last.op = "read_full_u32"
    /\ last.order = "LittleEndian"
    /\ last.kind = "ok"
    /\ last.before % 8 = 5
    /\ last.value # SubSeq(BufferBits(bytes), last.before + 1, last.before + 32)

\* C19 as stated: a read that fails leaves the cursor where it was before
\* the call.
C19_FailedReadConsumesNothing ==
    last.kind = "err" => position = last.before

\* ---- callers of the Simulator ----
\* C17: send_message and get_texture hold their mutex only while the call
\* that creates the future runs: no caller awaiting its future holds a mutex,
\* every held mutex belongs to a caller inside that call, and so a reliable
\* send waiting for its acknowledgment keeps no other caller from the lock.
C17_LockOnlyDuringCall ==
    /\ \A c \in Callers : caller[c].pc = "await" => \A m \in Mutexes : mutex[m] # c
    /\ \A m \in Mutexes :
        mutex[m] # 0 => /\ caller[mutex[m]].pc = "call"
                        /\ MutexOf(caller[mutex[m]].op) = m

C17_Witness ==
    /\ caller[1].pc = "await"
    /\ caller[1].op = "send_message"
    /\ caller[1].fut = "waiting"
    /\ caller[2].pc = "call"
    /\ caller[2].op = "send_message"
    /\ mutex["circuit"] = 2

====
